---- MODULE Spec2Model ----
(***************************************************************************)
(* The pattern scan of test_enhanced_scanner.py                            *)
(* (analyze_terraform_vulnerabilities): a knowledge base of regex entries  *)
(* is evaluated against the text of a Terraform file, findings are         *)
(* collected, displayed by severity and summarised.                        *)
(*                                                                         *)
(* Further down: the same scan with a file that cannot be opened, two      *)
(* scans at the same time, _truncate_text and find_gemini_results of       *)
(* security_consolidation_script.py, the construction of the scanner of    *)
(* gemini_security_scanner.py, its runs against the stored collections,    *)
(* and run_consolidation_analysis.  Each has its own specification; the    *)
(* variables of the others stay at rest in it.                             *)
(*                                                                         *)
(* Text is a sequence of one-character strings.  A pattern is kept, as in  *)
(* the knowledge base, as its source string; Compile gives its syntax      *)
(* tree and the matcher below follows the backtracking semantics of        *)
(* Python's re module (leftmost match, alternatives in order, greedy       *)
(* repetition).                                                            *)
(***************************************************************************)
EXTENDS Integers, Sequences, FiniteSets, TLC

VARIABLES
    security_knowledge,   \* scanner.security_knowledge, the knowledge base
    file_content,         \* the text of terraform_file on disk
    terraform_content,    \* the text read at lines 21-22 (empty before)
    findings,             \* the list built at lines 29-60
    k,                    \* position of the loop of line 32 in the knowledge base
    sev,                  \* position of the loop of line 65 in severity_order
    out,                  \* what has been printed, in order
    total_findings,       \* line 86
    critical_count,       \* line 87
    high_count,           \* line 88
    returned,             \* <<the list returned at line 100>>, <<>> before the return
    pc,                   \* where the invocation stands
    run,                  \* number of the invocation (1, 2)
    first,                \* inputs and result of the first invocation, once a second one starts
    scans,                \* two invocations running concurrently: the locals of each
    node_parser,          \* Settings.node_parser, a global every scanner constructor sets
    scanner,              \* a ModernGeminiSecurityScanner under construction
    trunc,                \* a call of SecurityConsolidator._truncate_text
    finder,               \* a call of SecurityConsolidator.find_gemini_results
    chroma,               \* what outlives a scanner run: the ChromaDB collections, the report files
    consolidator          \* a call of SecurityConsolidator.run_consolidation_analysis

scanVars == <<security_knowledge, file_content, terraform_content, findings, k, sev,
              out, total_findings, critical_count, high_count, returned, pc, run, first>>

\* The state of the other components, which the single invocation leaves alone.
restVars == <<chroma, consolidator>>

otherVars == <<scans, node_parser, scanner, trunc, finder, restVars>>

vars == <<scanVars, otherVars>>

(***************************************************************************)
(* Bounds of the model.                                                    *)
(***************************************************************************)
MaxCorpusLen == 3     \* longest file text, in characters
MaxKb == 2            \* longest knowledge base, in entries
RerunCorpusLen == 2   \* the same two, where a second invocation follows
RerunKb == 2

(***************************************************************************)
(* Text.                                                                   *)
(***************************************************************************)
NL == "\n"

Alphabet == {"a", "A", NL, " "}

\* str.lower() on one character, what re.IGNORECASE compares.
Lower(c) == IF c = "A" THEN "a" ELSE c

Whitespace == {" ", NL}

RECURSIVE TextsOfLen(_)
TextsOfLen(n) ==
    IF n = 0 THEN {<<>>}
    ELSE {Append(t, c) : t \in TextsOfLen(n - 1), c \in Alphabet}

\* terraform_content.split('\n'): the text between the newlines, one more
\* element than there are newlines (so [''] for the empty text).
RECURSIVE Split(_)
Split(s) ==
    IF \A i \in 1..Len(s) : s[i] # NL THEN <<s>>
    ELSE LET p == CHOOSE i \in 1..Len(s) :
                      s[i] = NL /\ \A j \in 1..(i - 1) : s[j] # NL
         IN  <<SubSeq(s, 1, p - 1)>> \o Split(SubSeq(s, p + 1, Len(s)))

\* Variant of Strip: line.lstrip(), only the leading whitespace removed.
RECURSIVE StripLeading(_)
StripLeading(s) ==
    IF s = <<>> THEN s
    ELSE IF Head(s) \in Whitespace THEN StripLeading(Tail(s))
    ELSE s

\* line.strip(): leading and trailing whitespace removed.
RECURSIVE Strip(_)
Strip(s) ==
    IF s = <<>> THEN s
    ELSE IF Head(s) \in Whitespace THEN Strip(Tail(s))
    ELSE IF s[Len(s)] \in Whitespace THEN Strip(SubSeq(s, 1, Len(s) - 1))
    ELSE s

(***************************************************************************)
(* Regular expressions: syntax trees.                                      *)
(***************************************************************************)
Lit(c)    == [t |-> "lit", c |-> c]        \* a literal character
Dot       == [t |-> "dot"]                 \* .   any character but newline
Space     == [t |-> "space"]               \* \s  a whitespace character
EndZ      == [t |-> "endz"]                \* \Z  the end of the string
Bol       == [t |-> "bol"]                 \* ^
Eol       == [t |-> "eol"]                 \* $
Cat(l, r) == [t |-> "cat", l |-> l, r |-> r]
Alt(l, r) == [t |-> "alt", l |-> l, r |-> r]
Star(r)   == [t |-> "star", r |-> r]       \* r*  greedy

\* The pattern strings of the model's knowledge bases (Python source text).
PatLit      == "a"
PatSpan     == "a\\sa"
PatStar     == "a*"
PatBad      == "(a"
PatEndOrSpan == "a\\Z|a\\s"
PatDot      == "a.a"
PatLine     == "^a$"

\* Whether the pattern compiles; "(a" has an unterminated group: re.error.
Compiles(p) == p # PatBad

\* The syntax tree of a pattern that compiles.
Compile(p) ==
    CASE p = PatLit       -> Lit("a")
      [] p = PatSpan      -> Cat(Lit("a"), Cat(Space, Lit("a")))
      [] p = PatStar      -> Star(Lit("a"))
      [] p = PatEndOrSpan -> Alt(Cat(Lit("a"), EndZ), Cat(Lit("a"), Space))
      [] p = PatDot       -> Cat(Lit("a"), Cat(Dot, Lit("a")))
      [] p = PatLine      -> Cat(Bol, Cat(Lit("a"), Eol))

(***************************************************************************)
(* Matching.  Positions are 1-based: position i stands before s[i], and    *)
(* Len(s) + 1 is the end.  Ends(r, s, i, ic, ml) is the sequence of        *)
(* positions at which a match of r starting at i can end, in the order the *)
(* backtracking matcher tries them; ic is re.IGNORECASE, ml re.MULTILINE.  *)
(***************************************************************************)
SameChar(a, b, ic) == IF ic THEN Lower(a) = Lower(b) ELSE a = b

RECURSIVE Ends(_, _, _, _, _)
RECURSIVE EndsFromEach(_, _, _, _, _)

Ends(r, s, i, ic, ml) ==
    CASE r.t = "lit" ->
            IF i <= Len(s) /\ SameChar(s[i], r.c, ic) THEN <<i + 1>> ELSE <<>>
      [] r.t = "dot" ->
            IF i <= Len(s) /\ s[i] # NL THEN <<i + 1>> ELSE <<>>
      [] r.t = "space" ->
            IF i <= Len(s) /\ s[i] \in Whitespace THEN <<i + 1>> ELSE <<>>
      [] r.t = "endz" ->
            IF i = Len(s) + 1 THEN <<i>> ELSE <<>>
      [] r.t = "bol" ->
            IF i = 1 \/ (ml /\ i > 1 /\ s[i - 1] = NL) THEN <<i>> ELSE <<>>
      [] r.t = "eol" ->
            IF \/ i = Len(s) + 1
               \/ i = Len(s) /\ s[i] = NL
               \/ ml /\ i <= Len(s) /\ s[i] = NL
            THEN <<i>> ELSE <<>>
      [] r.t = "cat" ->
            EndsFromEach(Ends(r.l, s, i, ic, ml), r.r, s, ic, ml)
      [] r.t = "alt" ->
            Ends(r.l, s, i, ic, ml) \o Ends(r.r, s, i, ic, ml)
      [] r.t = "star" ->
            EndsFromEach(SelectSeq(Ends(r.r, s, i, ic, ml), LAMBDA e : e > i),
                         r, s, ic, ml) \o <<i>>

EndsFromEach(es, r, s, ic, ml) ==
    IF es = <<>> THEN <<>>
    ELSE Ends(r, s, Head(es), ic, ml) \o EndsFromEach(Tail(es), r, s, ic, ml)

\* re.search(pattern, s, flags) is not None: some position starts a match.
Search(p, s, ic, ml) ==
    \E i \in 1..(Len(s) + 1) : Ends(Compile(p), s, i, ic, ml) # <<>>

\* re.findall(pattern, s, flags) for a pattern without groups: the matched
\* substrings, scanning left to right without overlap; after an empty match
\* the next match may not be empty at the same position.
RECURSIVE FindAllFrom(_, _, _, _, _, _)
FindAllFrom(r, s, pos, mustAdvance, ic, ml) ==
    LET EndsAt(i) ==
            IF mustAdvance /\ i = pos
            THEN SelectSeq(Ends(r, s, i, ic, ml), LAMBDA e : e > i)
            ELSE Ends(r, s, i, ic, ml)
        starts == {i \in pos..(Len(s) + 1) : EndsAt(i) # <<>>}
    IN  IF starts = {} THEN <<>>
        ELSE LET i == CHOOSE x \in starts : \A y \in starts : x <= y
                 e == Head(EndsAt(i))
             IN  <<SubSeq(s, i, e - 1)>> \o FindAllFrom(r, s, e, e = i, ic, ml)

FindAll(p, s, ic, ml) == FindAllFrom(Compile(p), s, 1, FALSE, ic, ml)

(***************************************************************************)
(* Knowledge bases.  An entry has the fields the scan reads (lines 33-36   *)
(* and 56); "description" and "impact" are never read by it.               *)
(***************************************************************************)
Entry(c, p, v, s, r) ==
    [category |-> c, pattern |-> p, vulnerability |-> v, severity |-> s,
     remediation |-> r]

Library ==
    { Entry("Public Access Controls", PatLit, "public access", "CRITICAL", "restrict members"),
      Entry("Network Security", PatSpan, "open range", "HIGH", "restrict ranges"),
      Entry("Data Encryption", PatStar, "no encryption", "MEDIUM", "enable encryption"),
      Entry("Hardcoded Credentials", PatBad, "hardcoded secret", "HIGH", "use a secret manager"),
      Entry("IAM Overprivilege", PatEndOrSpan, "broad role", "CRITICAL", "least privilege"),
      Entry("Public Storage", PatLine, "no uniform access", "LOW", "enable uniform access"),
      Entry("CORS Misconfiguration", PatDot, "any origin", "INFO", "list the origins") }

\* The knowledge bases of at most n entries: lists of distinct entries, as
\* _build_security_knowledge_base returns.
KnowledgeBases(n) ==
    UNION { {kb \in [1..m -> Library] :
                \A i, j \in 1..m : i # j => kb[i] # kb[j]} : m \in 0..n }

TextsUpTo(n) == UNION {TextsOfLen(m) : m \in 0..n}

(***************************************************************************)
(* The scan of one pattern (lines 38-60).                                  *)
(***************************************************************************)
\* Variants of Matches: without re.IGNORECASE; with the empty matches dropped.
MatchesCaseSensitive(p, s) == FindAll(p, s, FALSE, TRUE)

MatchesNonEmpty(p, s) == SelectSeq(FindAll(p, s, TRUE, TRUE), LAMBDA m : m # <<>>)

\* Line 40: re.findall(pattern, terraform_content, re.IGNORECASE | re.MULTILINE).
Matches(p, s) == FindAll(p, s, TRUE, TRUE)

\* Lines 44-47 over lines[i..]: the (number, stripped text) pairs of the lines
\* that re.search(pattern, line, re.IGNORECASE) matches, numbered from n.
RECURSIVE LineMatchesFrom(_, _, _)
LineMatchesFrom(p, lines, n) ==
    IF lines = <<>> THEN <<>>
    ELSE (IF Search(p, Head(lines), TRUE, FALSE)
          THEN <<<<n, Strip(Head(lines))>>>> ELSE <<>>)
         \o LineMatchesFrom(p, Tail(lines), n + 1)

\* Variants of LineMatches: enumerate(lines) counting from 0; re.search
\* without re.IGNORECASE.
LineMatchesFromZero(p, s) == LineMatchesFrom(p, Split(s), 0)

RECURSIVE LineMatchesExactCase(_, _, _)
LineMatchesExactCase(p, lines, n) ==
    IF lines = <<>> THEN <<>>
    ELSE (IF Search(p, Head(lines), FALSE, FALSE)
          THEN <<<<n, Strip(Head(lines))>>>> ELSE <<>>)
         \o LineMatchesExactCase(p, Tail(lines), n + 1)

LineMatchesCaseSensitive(p, s) == LineMatchesExactCase(p, Split(s), 1)

\* Lines 43-47: enumerate(lines, 1).
LineMatches(p, s) == LineMatchesFrom(p, Split(s), 1)

\* Variants of NewFindings: one finding for each matching line; a finding only
\* when some line matches.
NewFindingsPerLine(e, matches, line_matches) ==
    [i \in 1..Len(line_matches) |->
        [category |-> e.category, severity |-> e.severity,
         vulnerability |-> e.vulnerability, pattern |-> e.pattern,
         matches |-> matches, line_matches |-> <<line_matches[i]>>,
         remediation |-> e.remediation]]

NewFindingsIfLines(e, matches, line_matches) ==
    IF line_matches = <<>> THEN <<>>
    ELSE << [category |-> e.category, severity |-> e.severity,
             vulnerability |-> e.vulnerability, pattern |-> e.pattern,
             matches |-> matches, line_matches |-> line_matches,
             remediation |-> e.remediation] >>

\* Variant of NewFindings: the remediation taken from the wrong key.
NewFindingsWrongKey(e, matches, line_matches) ==
    << [category |-> e.category, severity |-> e.severity,
        vulnerability |-> e.vulnerability, pattern |-> e.pattern,
        matches |-> matches, line_matches |-> line_matches,
        remediation |-> e.vulnerability] >>

\* Lines 49-57: what a matching entry appends to findings.
NewFindings(e, matches, line_matches) ==
    << [category |-> e.category, severity |-> e.severity,
        vulnerability |-> e.vulnerability, pattern |-> e.pattern,
        matches |-> matches, line_matches |-> line_matches,
        remediation |-> e.remediation] >>

\* Variant of AfterRegexError: "break", the loop ends.
AfterRegexErrorBreak(n, len) == len + 1

\* Lines 58-60: after re.error at position n of a knowledge base of length
\* len, "continue" goes on with the next entry.
AfterRegexError(n, len) == n + 1

\* Variant of OnRegexError: no except clause, the exception leaves the scan.
OnRegexErrorRaise == "failed"

\* Lines 58-60: re.error is caught and the scan stays in its loop.
OnRegexError == "scan"

\* Variant of AppendFindings: a finding is dropped when an earlier finding
\* already lists one of its lines.
AppendUnlessLineSeen(fs, new) ==
    fs \o SelectSeq(new, LAMBDA f :
              \A i \in 1..Len(fs) :
                  \A x \in 1..Len(fs[i].line_matches), y \in 1..Len(f.line_matches) :
                      fs[i].line_matches[x][1] # f.line_matches[y][1])

\* Line 49: findings.append(...).
AppendFindings(fs, new) == fs \o new

\* Variant of FreshFindings: the list of the earlier invocation is kept.
StaleFindings(old) == old

\* Line 29: every invocation starts from a new, empty list, whatever an
\* earlier invocation left.
FreshFindings(old) == <<>>

(***************************************************************************)
(* The display (lines 62-83) and the summary (lines 85-98).                *)
(***************************************************************************)
\* Variant of severity_order: the least severe first.
severity_order_ascending == <<"LOW", "MEDIUM", "HIGH", "CRITICAL">>

\* Line 63.
severity_order == <<"CRITICAL", "HIGH", "MEDIUM", "LOW">>

RECURSIVE Reverse(_)
Reverse(q) == IF q = <<>> THEN <<>> ELSE Append(Reverse(Tail(q)), Head(q))

\* Variant of SeverityFindings: the group in reverse order.
SeverityFindingsReversed(fs, s) == Reverse(SelectSeq(fs, LAMBDA f : f.severity = s))

\* Line 66: [f for f in findings if f['severity'] == severity].
SeverityFindings(fs, s) == SelectSeq(fs, LAMBDA f : f.severity = s)

Min(a, b) == IF a <= b THEN a ELSE b

\* Lines 72-83: what is printed for the i-th finding of a severity group.
FindingLines(f, s, i) ==
    [kind |-> "finding", severity |-> s, number |-> i,
     category |-> f.category, vulnerability |-> f.vulnerability,
     pattern |-> f.pattern,
     evidence |-> SubSeq(f.line_matches, 1, Min(3, Len(f.line_matches))),
     more |-> IF Len(f.line_matches) > 3 THEN Len(f.line_matches) - 3 ELSE 0,
     remediation |-> f.remediation]

\* Lines 68-83: the heading of a group and its findings.
GroupLines(sf, s) ==
    <<[kind |-> "heading", severity |-> s, found |-> Len(sf)]>>
    \o [i \in 1..Len(sf) |-> FindingLines(sf[i], s, i)]

\* Variant of SummaryLines: the two counts printed under each other's label.
SummaryLinesSwapped(total, critical, high) ==
    <<[kind |-> "summary", total |-> total, critical |-> high, high |-> critical]>>
    \o (IF critical > 0 THEN <<[kind |-> "alert", critical |-> critical]>> ELSE <<>>)

\* Lines 90-98.
SummaryLines(total, critical, high) ==
    <<[kind |-> "summary", total |-> total, critical |-> critical, high |-> high]>>
    \o (IF critical > 0 THEN <<[kind |-> "alert", critical |-> critical]>> ELSE <<>>)

(***************************************************************************)
(* The invocation, step by step.                                           *)
(***************************************************************************)
\* No collection, no report file, no consolidation.
RestIdle ==
    /\ chroma = [collections |-> <<>>, reports |-> {}]
    /\ consolidator = [pc |-> "idle"]

\* The other components at rest.
OthersIdle ==
    /\ RestIdle
    /\ scans = <<>>
    /\ node_parser = "unset"
    /\ scanner = [pc |-> "idle"]
    /\ trunc = [pc |-> "idle"]
    /\ finder = [pc |-> "idle"]

NoFirst == [kb |-> <<>>, content |-> <<>>, returned |-> <<>>, relation |-> "none"]

InitWith(maxKb, maxLen) ==
    /\ security_knowledge \in KnowledgeBases(maxKb)
    /\ file_content \in TextsUpTo(maxLen)
    /\ terraform_content = <<>>
    /\ findings = <<>>
    /\ k = 1
    /\ sev = 1
    /\ out = <<>>
    /\ total_findings = 0
    /\ critical_count = 0
    /\ high_count = 0
    /\ returned = <<>>
    /\ pc = "start"
    /\ run = 1
    /\ first = NoFirst
    /\ OthersIdle

Init == InitWith(MaxKb, MaxCorpusLen)

\* Lines 14-29: the scanner is built, the file is read, the banner printed.
Start ==
    /\ pc = "start"
    /\ terraform_content' = file_content
    /\ out' = <<[kind |-> "banner", size |-> Len(file_content),
                 patterns |-> Len(security_knowledge)]>>
    /\ findings' = FreshFindings(findings)
    /\ k' = 1
    /\ pc' = "scan"
    /\ UNCHANGED <<security_knowledge, file_content, sev, total_findings,
                   critical_count, high_count, returned, run, first>>
    /\ UNCHANGED otherVars

pattern_info == security_knowledge[k]

\* Lines 39-57: the pattern has matches; a finding is appended.
ScanMatch ==
    /\ pc = "scan"
    /\ k <= Len(security_knowledge)
    /\ Compiles(pattern_info.pattern)
    /\ Matches(pattern_info.pattern, terraform_content) # <<>>
    /\ findings' = AppendFindings(findings,
                         NewFindings(pattern_info,
                             Matches(pattern_info.pattern, terraform_content),
                             LineMatches(pattern_info.pattern, terraform_content)))
    /\ k' = k + 1
    /\ UNCHANGED <<security_knowledge, file_content, terraform_content, sev, out,
                   total_findings, critical_count, high_count, returned, pc,
                   run, first>>
    /\ UNCHANGED otherVars

\* Lines 39-41: the pattern has no match; nothing is appended.
ScanNoMatch ==
    /\ pc = "scan"
    /\ k <= Len(security_knowledge)
    /\ Compiles(pattern_info.pattern)
    /\ Matches(pattern_info.pattern, terraform_content) = <<>>
    /\ k' = k + 1
    /\ UNCHANGED <<security_knowledge, file_content, terraform_content, findings,
                   sev, out, total_findings, critical_count, high_count,
                   returned, pc, run, first>>
    /\ UNCHANGED otherVars

\* Lines 40, 58-60: re.findall raises re.error; the entry is skipped.
ScanRegexError ==
    /\ pc = "scan"
    /\ k <= Len(security_knowledge)
    /\ ~Compiles(pattern_info.pattern)
    /\ k' = AfterRegexError(k, Len(security_knowledge))
    /\ pc' = OnRegexError
    /\ UNCHANGED <<security_knowledge, file_content, terraform_content, findings,
                   sev, out, total_findings, critical_count, high_count,
                   returned, run, first>>
    /\ UNCHANGED otherVars

\* Line 32: the knowledge base is exhausted.
ScanEnd ==
    /\ pc = "scan"
    /\ k > Len(security_knowledge)
    /\ sev' = 1
    /\ pc' = "display"
    /\ UNCHANGED <<security_knowledge, file_content, terraform_content, findings,
                   k, out, total_findings, critical_count, high_count, returned,
                   run, first>>
    /\ UNCHANGED otherVars

\* Lines 65-83: a severity with findings is displayed.
DisplayGroup ==
    /\ pc = "display"
    /\ sev <= Len(severity_order)
    /\ SeverityFindings(findings, severity_order[sev]) # <<>>
    /\ out' = out \o GroupLines(SeverityFindings(findings, severity_order[sev]),
                                 severity_order[sev])
    /\ sev' = sev + 1
    /\ UNCHANGED <<security_knowledge, file_content, terraform_content, findings,
                   k, total_findings, critical_count, high_count, returned, pc,
                   run, first>>
    /\ UNCHANGED otherVars

\* Variant of DisplaySkip: without the test of line 67 the heading of an
\* empty group is printed too.
DisplayEmptyHeading ==
    /\ pc = "display"
    /\ sev <= Len(severity_order)
    /\ SeverityFindings(findings, severity_order[sev]) = <<>>
    /\ out' = out \o GroupLines(<<>>, severity_order[sev])
    /\ sev' = sev + 1
    /\ UNCHANGED <<security_knowledge, file_content, terraform_content, findings,
                   k, total_findings, critical_count, high_count, returned, pc,
                   run, first>>
    /\ UNCHANGED otherVars

\* Lines 65-67: a severity without findings prints nothing.
DisplaySkip ==
    /\ pc = "display"
    /\ sev <= Len(severity_order)
    /\ SeverityFindings(findings, severity_order[sev]) = <<>>
    /\ sev' = sev + 1
    /\ UNCHANGED <<security_knowledge, file_content, terraform_content, findings,
                   k, out, total_findings, critical_count, high_count, returned,
                   pc, run, first>>
    /\ UNCHANGED otherVars

\* Lines 85-100: the summary is computed and printed, the findings returned.
Summary ==
    /\ pc = "display"
    /\ sev > Len(severity_order)
    /\ total_findings' = Len(findings)
    /\ critical_count' = Len(SeverityFindings(findings, "CRITICAL"))
    /\ high_count' = Len(SeverityFindings(findings, "HIGH"))
    /\ out' = out \o SummaryLines(Len(findings),
                                   Len(SeverityFindings(findings, "CRITICAL")),
                                   Len(SeverityFindings(findings, "HIGH")))
    /\ returned' = <<findings>>
    /\ pc' = "done"
    /\ UNCHANGED <<security_knowledge, file_content, terraform_content, findings,
                   k, sev, run, first>>
    /\ UNCHANGED otherVars

Next ==
    \/ Start
    \/ ScanMatch
    \/ ScanNoMatch
    \/ ScanRegexError
    \/ ScanEnd
    \/ DisplayGroup
    \/ DisplaySkip
    \/ Summary

Spec == Init /\ [][Next]_vars

(***************************************************************************)
(* The invocation with the file system as it may be: open() of line 21      *)
(* raises OSError for a file that is missing or unreadable, and nothing in  *)
(* the function catches it.                                                 *)
(***************************************************************************)
IoKb == 2
IoCorpusLen == 2

\* Lines 21-22: open() or read() raises; the exception leaves the function.
OpenFails ==
    /\ pc = "start"
    /\ pc' = "failed"
    /\ UNCHANGED <<security_knowledge, file_content, terraform_content, findings,
                   k, sev, out, total_findings, critical_count, high_count,
                   returned, run, first>>
    /\ UNCHANGED otherVars

InitIO == InitWith(IoKb, IoCorpusLen)

NextIO ==
    \/ Next
    \/ OpenFails

SpecIO == InitIO /\ [][NextIO]_vars

(***************************************************************************)
(* A second invocation, on inputs related to those of the first: the same  *)
(* ones, a file that differs only in letter case, or the knowledge base    *)
(* without its entries that do not compile.                                *)
(***************************************************************************)
Again(kb, content, relation) ==
    /\ pc = "done"
    /\ run = 1
    /\ first' = [kb |-> security_knowledge, content |-> file_content,
                 returned |-> returned, relation |-> relation]
    /\ run' = 2
    /\ security_knowledge' = kb
    /\ file_content' = content
    /\ terraform_content' = <<>>
    /\ k' = 1
    /\ sev' = 1
    /\ out' = <<>>
    /\ total_findings' = 0
    /\ critical_count' = 0
    /\ high_count' = 0
    /\ returned' = <<>>
    /\ pc' = "start"
    /\ UNCHANGED findings
    /\ UNCHANGED otherVars

LowerText(s) == [i \in 1..Len(s) |-> Lower(s[i])]

AgainSame == Again(security_knowledge, file_content, "same")

AgainOtherCase ==
    /\ pc = "done"
    /\ run = 1
    /\ \E c \in TextsOfLen(Len(file_content)) :
        /\ c # file_content
        /\ LowerText(c) = LowerText(file_content)
        /\ Again(security_knowledge, c, "case")

AgainWithoutBad ==
    /\ pc = "done"
    /\ run = 1
    /\ \E j \in 1..Len(security_knowledge) : ~Compiles(security_knowledge[j].pattern)
    /\ Again(SelectSeq(security_knowledge, LAMBDA e : Compiles(e.pattern)),
             file_content, "compiling")

InitRerun == InitWith(RerunKb, RerunCorpusLen)

NextRerun ==
    \/ Start
    \/ ScanMatch
    \/ ScanNoMatch
    \/ ScanRegexError
    \/ ScanEnd
    \/ DisplayGroup
    \/ DisplaySkip
    \/ Summary
    \/ AgainSame
    \/ AgainOtherCase
    \/ AgainWithoutBad

SpecRerun == InitRerun /\ [][NextRerun]_vars

(***************************************************************************)
(* Two invocations at the same time, each on its own file.  Everything an  *)
(* invocation works on is local to it (scanner, terraform_content,         *)
(* findings); what the two share is the standard output and the global     *)
(* Settings.node_parser that every scanner constructor assigns.            *)
(***************************************************************************)
ConKb == 1
ConCorpusLen == 1

Procs == {1, 2}

\* The scan variables of the single invocation at rest.
ScanIdle ==
    /\ security_knowledge = <<>>
    /\ file_content = <<>>
    /\ terraform_content = <<>>
    /\ findings = <<>>
    /\ k = 1
    /\ sev = 1
    /\ out = <<>>
    /\ total_findings = 0
    /\ critical_count = 0
    /\ high_count = 0
    /\ returned = <<>>
    /\ pc = "idle"
    /\ run = 1
    /\ first = NoFirst

\* gemini_security_scanner.py lines 62-65.
SentenceSplitter == [chunk_size |-> 1024, chunk_overlap |-> 200]

NewProc ==
    [pc |-> "new", security_knowledge |-> <<>>, terraform_content |-> <<>>,
     findings |-> <<>>, k |-> 1, returned |-> <<>>]

InitConcurrent ==
    /\ ScanIdle
    /\ RestIdle
    /\ \E kb \in KnowledgeBases(ConKb) :
       \E f1, f2 \in TextsUpTo(ConCorpusLen) :
           scans = [table |-> kb, file |-> <<f1, f2>>,
                    proc |-> <<NewProc, NewProc>>, stdout |-> <<>>]
    /\ node_parser = "unset"
    /\ scanner = [pc |-> "idle"]
    /\ trunc = [pc |-> "idle"]
    /\ finder = [pc |-> "idle"]

\* Variant of OwnFindings: one list that all invocations append to.
SharedFindings(procs, p) == procs[1].findings

\* test_enhanced_scanner.py line 29: findings is a local of the invocation.
OwnFindings(procs, p) == procs[p].findings

\* Lines 62-98: everything the display prints for a findings list.
RECURSIVE DisplayLinesFrom(_, _)
DisplayLinesFrom(fs, i) ==
    IF i > Len(severity_order) THEN
        SummaryLines(Len(fs), Len(SeverityFindings(fs, "CRITICAL")),
                     Len(SeverityFindings(fs, "HIGH")))
    ELSE
        (IF SeverityFindings(fs, severity_order[i]) = <<>> THEN <<>>
         ELSE GroupLines(SeverityFindings(fs, severity_order[i]), severity_order[i]))
        \o DisplayLinesFrom(fs, i + 1)

ConUnchanged ==
    /\ UNCHANGED scanVars
    /\ UNCHANGED <<scanner, trunc, finder, restVars>>

\* Lines 14-29, as Start: the invocation builds its scanner, whose
\* constructor assigns the global node parser and builds the scanner's own
\* knowledge list; the file is read, the banner printed, findings = [].
ConStart(p) ==
    /\ scans.proc[p].pc = "new"
    /\ node_parser' = SentenceSplitter
    /\ scans' = [scans EXCEPT
                   !.proc[p].security_knowledge = scans.table,
                   !.proc[p].terraform_content = scans.file[p],
                   !.proc[p].findings = <<>>,
                   !.proc[p].k = 1,
                   !.proc[p].pc = "scan",
                   !.stdout = @ \o <<[kind |-> "banner", size |-> Len(scans.file[p]),
                                      patterns |-> Len(scans.table)]>>]
    /\ ConUnchanged

\* Lines 32-60: one pass of the loop body.
ConScanEntry(p) ==
    LET me == scans.proc[p]
        e == me.security_knowledge[me.k]
        matches == Matches(e.pattern, me.terraform_content)
    IN  /\ me.pc = "scan"
        /\ me.k <= Len(me.security_knowledge)
        /\ scans' =
             IF ~Compiles(e.pattern) THEN
                 [scans EXCEPT !.proc[p].k = AfterRegexError(me.k, Len(me.security_knowledge))]
             ELSE IF matches = <<>> THEN
                 [scans EXCEPT !.proc[p].k = me.k + 1]
             ELSE
                 [scans EXCEPT
                    !.proc[p].k = me.k + 1,
                    !.proc[p].findings =
                        AppendFindings(OwnFindings(scans.proc, p),
                            NewFindings(e, matches,
                                        LineMatches(e.pattern, me.terraform_content)))]
        /\ UNCHANGED node_parser
        /\ ConUnchanged

\* Lines 62-100: the display is printed and the findings are returned.
ConFinish(p) ==
    LET me == scans.proc[p]
    IN  /\ me.pc = "scan"
        /\ me.k > Len(me.security_knowledge)
        /\ scans' = [scans EXCEPT
                       !.proc[p].returned = <<OwnFindings(scans.proc, p)>>,
                       !.proc[p].pc = "done",
                       !.stdout = @ \o DisplayLinesFrom(OwnFindings(scans.proc, p), 1)]
        /\ UNCHANGED node_parser
        /\ ConUnchanged

NextConcurrent ==
    \/ \E p \in Procs : ConStart(p)
    \/ \E p \in Procs : ConScanEntry(p)
    \/ \E p \in Procs : ConFinish(p)

SpecConcurrent == InitConcurrent /\ [][NextConcurrent]_vars

\* What one invocation alone returns for a knowledge list and a text: the
\* loop of lines 32-60 from entry i on.
RECURSIVE ScanAloneFrom(_, _, _)
ScanAloneFrom(kb, content, i) ==
    IF i > Len(kb) THEN <<>>
    ELSE IF ~Compiles(kb[i].pattern) THEN ScanAloneFrom(kb, content, i + 1)
    ELSE IF Matches(kb[i].pattern, content) = <<>> THEN ScanAloneFrom(kb, content, i + 1)
    ELSE NewFindings(kb[i], Matches(kb[i].pattern, content),
                     LineMatches(kb[i].pattern, content))
         \o ScanAloneFrom(kb, content, i + 1)

ScanAlone(kb, content) == ScanAloneFrom(kb, content, 1)

(***************************************************************************)
(* SecurityConsolidator._truncate_text of security_consolidation_script.py *)
(* (lines 39-50).                                                          *)
(***************************************************************************)
TruncTextLen == 7
TruncMaxChars == 6

RECURSIVE TruncTextsOfLen(_)
TruncTextsOfLen(n) ==
    IF n = 0 THEN {<<>>}
    ELSE {Append(t, c) : t \in TruncTextsOfLen(n - 1), c \in {"x", NL}}

TruncTexts == UNION {TruncTextsOfLen(n) : n \in 0..TruncTextLen}

\* str(n) for n >= 0, as the f-string of line 50 formats the two lengths.
RECURSIVE Digits(_)
Digits(n) ==
    LET d == <<"0", "1", "2", "3", "4", "5", "6", "7", "8", "9">>
    IN  IF n < 10 THEN <<d[n + 1]>> ELSE Digits(n \div 10) \o <<d[(n % 10) + 1]>>

\* text[:n] for n >= 0.
Slice(text, n) == SubSeq(text, 1, Min(n, Len(text)))

\* truncated.rfind('\n'): the 0-based index of the last newline, -1 if none.
RFindNL(t) ==
    IF \A i \in 1..Len(t) : t[i] # NL THEN -1
    ELSE (CHOOSE i \in 1..Len(t) : t[i] = NL /\ \A j \in (i + 1)..Len(t) : t[j] # NL) - 1

\* Line 50: the three fixed parts of the notice.
NoticeHead ==
    <<NL, NL, ".", ".", ".", " ", "[", "T", "R", "U", "N", "C", "A", "T",
      "E", "D", " ", "-", " ", "O", "r", "i", "g", "i", "n", "a", "l", " ",
      "l", "e", "n", "g", "t", "h", ":", " ">>
NoticeMiddle ==
    <<" ", "c", "h", "a", "r", "s", ",", " ", "s", "h", "o", "w", "i", "n",
      "g", " ", "f", "i", "r", "s", "t", " ">>
NoticeTail ==
    <<" ", "c", "h", "a", "r", "s", "]">>

\* Line 50.
Notice(original, shown) ==
    NoticeHead \o Digits(original) \o NoticeMiddle \o Digits(shown) \o NoticeTail

\* Line 47: last_newline > max_chars * 0.8, in whole numbers.
InLastFifth(last_newline, max_chars) == 5 * last_newline > 4 * max_chars

\* Lines 44-48: the text cut at max_chars, and at its last newline when
\* that one lies in the last fifth.
Truncated(text, max_chars) ==
    LET truncated == Slice(text, max_chars)
        last_newline == RFindNL(truncated)
    IN  IF InLastFifth(last_newline, max_chars) THEN Slice(truncated, last_newline)
        ELSE truncated

\* Lines 39-50.
truncate_text(text, max_chars) ==
    IF Len(text) <= max_chars THEN text
    ELSE Truncated(text, max_chars)
         \o Notice(Len(text), Len(Truncated(text, max_chars)))

InitTruncate ==
    /\ ScanIdle
    /\ RestIdle
    /\ scans = <<>>
    /\ node_parser = "unset"
    /\ scanner = [pc |-> "idle"]
    /\ finder = [pc |-> "idle"]
    /\ \E text \in TruncTexts :
       \E max_chars \in 0..TruncMaxChars :
           trunc = [pc |-> "call", text |-> text, max_chars |-> max_chars,
                    result |-> <<>>]

\* Lines 41-42: the text is short enough and is returned as it is.
TruncateShort ==
    /\ trunc.pc = "call"
    /\ Len(trunc.text) <= trunc.max_chars
    /\ trunc' = [trunc EXCEPT !.pc = "returned",
                              !.result = truncate_text(trunc.text, trunc.max_chars)]
    /\ UNCHANGED <<restVars, scanVars, scans, node_parser, scanner, finder>>

\* Lines 44-50: the text is cut and the notice appended.
TruncateLong ==
    /\ trunc.pc = "call"
    /\ Len(trunc.text) > trunc.max_chars
    /\ trunc' = [trunc EXCEPT !.pc = "returned",
                              !.result = truncate_text(trunc.text, trunc.max_chars)]
    /\ UNCHANGED <<restVars, scanVars, scans, node_parser, scanner, finder>>

NextTruncate ==
    \/ TruncateShort
    \/ TruncateLong

SpecTruncate == InitTruncate /\ [][NextTruncate]_vars

(***************************************************************************)
(* SecurityConsolidator.find_gemini_results of                             *)
(* security_consolidation_script.py (lines 82-109).                        *)
(*                                                                         *)
(* A file name and a glob pattern are sequences of words ("security",      *)
(* "_", ".txt", ...) instead of characters; "*" in a pattern stands for    *)
(* any run of words.  No word of WordsOfNames occurs inside another or     *)
(* across the border of two, so that matching word by word gives what      *)
(* fnmatch gives on the characters.                                        *)
(***************************************************************************)
FinderMaxFiles == 2
FinderMaxMtime == 2

\* Lines 87-92, in this order.
gemini_patterns ==
    << <<"enhanced", "_", "security", "_", "analysis", "_", "*", ".txt">>,
       <<"*", "security", "_", "analysis", "*", ".txt">>,
       <<"*", "gemini", "*", "analysis", "*", ".txt">>,
       <<"*", "gemini", "*", "security", "*", ".txt">> >>

\* The names a file of the results directory may have.
FileNames ==
    { <<"enhanced", "_", "security", "_", "analysis", "_", "1", ".txt">>,
      <<"security", "_", "analysis", ".txt">>,
      <<"gemini", "_", "analysis", ".txt">>,
      <<"gemini", "_", "security", ".txt">>,
      <<"gemini", "_", "security", "_", "analysis", ".txt">>,
      <<"1", ".txt">> }

\* A file is in the results directory itself or in a subdirectory of it.
Paths == [name : FileNames, dir : {"top", "sub"}]

\* The directory trees of at most n files with st_mtime in 1..t: a function
\* from the paths that exist to their modification times.
Trees(n, t) ==
    UNION {[ps -> 1..t] : ps \in {q \in SUBSET Paths : Cardinality(q) <= n}}

\* fnmatch of one path component against a pattern.
RECURSIVE GlobMatch(_, _)
GlobMatch(pat, name) ==
    IF pat = <<>> THEN name = <<>>
    ELSE IF Head(pat) = "*" THEN
        \E i \in 0..Len(name) : GlobMatch(Tail(pat), SubSeq(name, i + 1, Len(name)))
    ELSE /\ name # <<>>
         /\ Head(name) = Head(pat)
         /\ GlobMatch(Tail(pat), Tail(name))

\* results_dir.glob(pattern): the files of the directory itself that match.
GlobTop(tree, pat) ==
    {f \in DOMAIN tree : f.dir = "top" /\ GlobMatch(pat, f.name)}

\* results_dir.glob("**/" + pattern): the files of the directory itself and
\* of its subdirectories that match.
GlobDeep(tree, pat) ==
    {f \in DOMAIN tree : GlobMatch(pat, f.name)}

\* The orders in which a glob may yield a set of files: that of the
\* directory listing, which nothing fixes.
Orders(S) ==
    {q \in [1..Cardinality(S) -> S] : \A i, j \in 1..Cardinality(S) : q[i] = q[j] => i = j}

\* Variant of MostRecent: the first file of the list, whatever its time.
FirstFound(tree, files) == files[1]

\* Line 107: max(files, key=st_mtime), the first of the list among those
\* with the greatest modification time.
MostRecent(tree, files) ==
    files[CHOOSE i \in 1..Len(files) :
              /\ \A j \in 1..Len(files) : tree[files[j]] <= tree[files[i]]
              /\ \A j \in 1..(i - 1) : tree[files[j]] < tree[files[i]]]

NoPath == [name |-> <<>>, dir |-> "none"]

InitFinder ==
    /\ ScanIdle
    /\ RestIdle
    /\ scans = <<>>
    /\ node_parser = "unset"
    /\ scanner = [pc |-> "idle"]
    /\ trunc = [pc |-> "idle"]
    /\ \E tree \in Trees(FinderMaxFiles, FinderMaxMtime) :
           finder = [pc |-> "search", tree |-> tree, patterns |-> gemini_patterns,
                     i |-> 1, files |-> <<>>, result |-> NoPath]

\* Lines 95-100: one pass of the loop, the two globs of one pattern.
FindPattern ==
    /\ finder.pc = "search"
    /\ finder.i <= Len(finder.patterns)
    /\ \E top \in Orders(GlobTop(finder.tree, finder.patterns[finder.i])) :
       \E deep \in Orders(GlobDeep(finder.tree, finder.patterns[finder.i])) :
           finder' = [finder EXCEPT !.files = @ \o top \o deep, !.i = @ + 1]
    /\ UNCHANGED <<restVars, scanVars, scans, node_parser, scanner, trunc>>

\* Lines 102-104: nothing was found; None is returned.
FindNothing ==
    /\ finder.pc = "search"
    /\ finder.i > Len(finder.patterns)
    /\ finder.files = <<>>
    /\ finder' = [finder EXCEPT !.pc = "none"]
    /\ UNCHANGED <<restVars, scanVars, scans, node_parser, scanner, trunc>>

\* Lines 106-109: the most recent file of the list is returned.
FindMostRecent ==
    /\ finder.pc = "search"
    /\ finder.i > Len(finder.patterns)
    /\ finder.files # <<>>
    /\ finder' = [finder EXCEPT !.pc = "found",
                                !.result = MostRecent(finder.tree, finder.files)]
    /\ UNCHANGED <<restVars, scanVars, scans, node_parser, scanner, trunc>>

NextFinder ==
    \/ FindPattern
    \/ FindNothing
    \/ FindMostRecent

SpecFinder == InitFinder /\ [][NextFinder]_vars

(***************************************************************************)
(* SecurityConsolidator.find_prowler_results (lines 52-80) is the same     *)
(* search with other patterns: either of the two searches, on a directory  *)
(* of files that its patterns are about.                                   *)
(***************************************************************************)
FindersMaxFiles == 2
FindersMaxMtime == 2

\* Lines 57-63, in this order.
prowler_patterns ==
    << <<"*", "prowler", "*", "cleaned", "*", ".json">>,
       <<"*", "prowler", "*", ".json">>,
       <<"*", "cleaned", "*", "prowler", "*", ".json">>,
       <<"prowler", "_", "*", ".json">>,
       <<"*", "prowler", "*", "output", "*", ".json">> >>

ProwlerFileNames ==
    { <<"prowler", "_", "cleaned", ".json">>,
      <<"cleaned", "_", "prowler", ".json">>,
      <<"prowler", "_", "output", ".json">>,
      <<"1", ".json">> }

ProwlerPaths == [name : ProwlerFileNames, dir : {"top", "sub"}]

ProwlerTrees(n, t) ==
    UNION {[ps -> 1..t] : ps \in {q \in SUBSET ProwlerPaths : Cardinality(q) <= n}}

InitFinders ==
    /\ ScanIdle
    /\ RestIdle
    /\ scans = <<>>
    /\ node_parser = "unset"
    /\ scanner = [pc |-> "idle"]
    /\ trunc = [pc |-> "idle"]
    /\ \/ \E tree \in Trees(FindersMaxFiles, FindersMaxMtime) :
             finder = [pc |-> "search", tree |-> tree, patterns |-> gemini_patterns,
                       i |-> 1, files |-> <<>>, result |-> NoPath]
       \/ \E tree \in ProwlerTrees(FindersMaxFiles, FindersMaxMtime) :
             finder = [pc |-> "search", tree |-> tree, patterns |-> prowler_patterns,
                       i |-> 1, files |-> <<>>, result |-> NoPath]

SpecFinders == InitFinders /\ [][NextFinder]_vars

(***************************************************************************)
(* The scanner of gemini_security_scanner.py: main() takes the provider    *)
(* from the command line, the constructor of ModernGeminiSecurityScanner   *)
(* derives the name of the collection from it and builds the knowledge     *)
(* base.  A provider is a sequence of one-character strings; a category is *)
(* the sequence of its words.                                              *)
(***************************************************************************)
ProviderLen == 3

Letters == {"A", "a", "W", "w", "S", "s", "G", "g", "C", "c", "P", "p"}

\* str.upper() and str.lower() on one letter.
UpperChar(c) ==
    CASE c = "a" -> "A" [] c = "w" -> "W" [] c = "s" -> "S"
      [] c = "g" -> "G" [] c = "c" -> "C" [] c = "p" -> "P" [] OTHER -> c

LowerChar(c) ==
    CASE c = "A" -> "a" [] c = "W" -> "w" [] c = "S" -> "s"
      [] c = "G" -> "g" [] c = "C" -> "c" [] c = "P" -> "p" [] OTHER -> c

Upper(t) == [i \in 1..Len(t) |-> UpperChar(t[i])]

LowerAll(t) == [i \in 1..Len(t) |-> LowerChar(t[i])]

RECURSIVE ProvidersOfLen(_)
ProvidersOfLen(n) ==
    IF n = 0 THEN {<<>>}
    ELSE {Append(t, c) : t \in ProvidersOfLen(n - 1), c \in Letters}

\* What sys.argv[4:] may be: nothing, or one provider argument.
ProviderArgs == {<<>>} \cup {<<t>> : t \in UNION {ProvidersOfLen(n) : n \in 0..ProviderLen}}

AWS == <<"A", "W", "S">>

GCP == <<"G", "C", "P">>

\* Lines 72-199: the list _build_security_knowledge_base returns, with the
\* category, pattern and severity of each entry.
BuiltKnowledge ==
    <<
      [category |-> <<"Public", "Access", "Controls">>,
       pattern |-> "member = \"allUsers\"",
       severity |-> "CRITICAL"],
      [category |-> <<"Hardcoded", "Credentials">>,
       pattern |-> "secret|password|key.*=.*[\"'][^\"']{8,}[\"']",
       severity |-> "CRITICAL"],
      [category |-> <<"Network", "Security">>,
       pattern |-> "source_ranges.*=.*\\[\"0\\.0\\.0\\.0/0\"\\]",
       severity |-> "CRITICAL"],
      [category |-> <<"IAM", "Overprivilege">>,
       pattern |-> "roles/owner|roles/editor",
       severity |-> "HIGH"],
      [category |-> <<"CORS", "Misconfiguration">>,
       pattern |-> "origin.*=.*\\[\"\\*\"\\]",
       severity |-> "MEDIUM"],
      [category |-> <<"Compute", "Security">>,
       pattern |-> "scopes.*=.*\\[.*\"cloud-platform\".*\\]",
       severity |-> "HIGH"],
      [category |-> <<"Data", "Encryption">>,
       pattern |-> "encryption.*=.*false|kms_key_id.*=.*null",
       severity |-> "HIGH"],
      [category |-> <<"Public", "Storage">>,
       pattern |-> "uniform_bucket_level_access.*=.*false",
       severity |-> "MEDIUM"],
      [category |-> <<"AWS", "EC2", "Security">>,
       pattern |-> "associate_public_ip_address.*=.*true",
       severity |-> "HIGH"],
      [category |-> <<"AWS", "Security", "Group">>,
       pattern |-> "cidr_blocks.*=.*\\[\"0\\.0\\.0\\.0/0\"\\]",
       severity |-> "CRITICAL"],
      [category |-> <<"AWS", "S3", "Bucket">>,
       pattern |-> "block_public_acls.*=.*false|block_public_policy.*=.*false",
       severity |-> "CRITICAL"],
      [category |-> <<"AWS", "RDS", "Security">>,
       pattern |-> "publicly_accessible.*=.*true",
       severity |-> "CRITICAL"],
      [category |-> <<"AWS", "Lambda", "Security">>,
       pattern |-> "reserved_concurrent_executions.*=.*-1",
       severity |-> "MEDIUM"],
      [category |-> <<"AWS", "IAM", "Policy">>,
       pattern |-> "Effect.*=.*Allow.*Action.*=.*\\*.*Resource.*=.*\\*",
       severity |-> "CRITICAL"] >>

\* The string of a sequence of characters.
RECURSIVE Word(_)
Word(t) == IF t = <<>> THEN "" ELSE Head(t) \o Word(Tail(t))

\* Variant of CollectionName: one collection for all providers.
CollectionNameShared(provider) == "security_knowledge_base"

\* Line 45.
CollectionName(provider) == "security_knowledge_base_" \o Word(LowerAll(provider))

InitScanner ==
    /\ ScanIdle
    /\ RestIdle
    /\ scans = <<>>
    /\ node_parser = "unset"
    /\ trunc = [pc |-> "idle"]
    /\ finder = [pc |-> "idle"]
    /\ \E args \in ProviderArgs :
           scanner = [pc |-> "main", args |-> args, provider_arg |-> <<>>,
                      provider |-> <<>>, collection_name |-> "",
                      security_knowledge |-> <<>>]

\* Line 574: the provider is the fifth argument, "AWS" without one.
MainProvider ==
    /\ scanner.pc = "main"
    /\ scanner' = [scanner EXCEPT
                     !.provider_arg = IF scanner.args = <<>> THEN AWS ELSE scanner.args[1],
                     !.pc = "init"]
    /\ UNCHANGED <<restVars, scanVars, scans, node_parser, trunc, finder>>

\* Lines 36-65: the constructor up to the node parser.
Construct ==
    /\ scanner.pc = "init"
    /\ scanner' = [scanner EXCEPT
                     !.provider = Upper(scanner.provider_arg),
                     !.collection_name = CollectionName(Upper(scanner.provider_arg)),
                     !.pc = "build"]
    /\ node_parser' = SentenceSplitter
    /\ UNCHANGED <<restVars, scanVars, scans, trunc, finder>>

\* Line 68: the knowledge base is built.
BuildKnowledge ==
    /\ scanner.pc = "build"
    /\ scanner' = [scanner EXCEPT !.security_knowledge = BuiltKnowledge,
                                  !.pc = "built"]
    /\ UNCHANGED <<restVars, scanVars, scans, node_parser, trunc, finder>>

NextScanner ==
    \/ MainProvider
    \/ Construct
    \/ BuildKnowledge

SpecScanner == InitScanner /\ [][NextScanner]_vars

(***************************************************************************)
(* Scanner runs, one after the other (gemini_security_scanner.py, main and *)
(* run_enhanced_security_analysis).  The ChromaDB collections are on disk  *)
(* and outlive a run, and so do the report files.  A document carries the  *)
(* number of the run that added it and the provider argument of that run.  *)
(*                                                                         *)
(* Collection.delete() is called without arguments (line 219).  What that  *)
(* does depends on the ChromaDB installed: it deletes every document of    *)
(* the collection, or it raises ValueError because neither ids nor a       *)
(* filter is given.  Both are outcomes of the step.                        *)
(***************************************************************************)
MaxRuns == 3

\* The provider arguments of the runs: none, or AWS or GCP in either case.
RunArgs == {<<>>, <<AWS>>, <<LowerAll(AWS)>>, <<GCP>>, <<LowerAll(GCP)>>}

NewRun(n, args) ==
    [pc |-> "main", args |-> args, provider_arg |-> <<>>, provider |-> <<>>,
     collection_name |-> "", security_knowledge |-> <<>>,
     run |-> n, steps |-> <<>>, setup |-> "no", exit |-> <<>>]

InitRuns ==
    /\ ScanIdle
    /\ scans = <<>>
    /\ node_parser = "unset"
    /\ trunc = [pc |-> "idle"]
    /\ finder = [pc |-> "idle"]
    /\ consolidator = [pc |-> "idle"]
    /\ chroma = [collections |-> <<>>, reports |-> {}]
    /\ \E args \in RunArgs : scanner = NewRun(1, args)

\* Lines 448-462, in this order, after the documents and the pipeline.
Queries == <<"query", "public_access", "credential", "iam">>

\* Variant of AfterException: the exception is swallowed and the report is
\* written all the same.
AfterExceptionSwallowed(sc) == [sc EXCEPT !.pc = "report"]

\* Lines 558-562 and 603-605: the exception is printed and raised again,
\* main prints the failure and exits with status 1.
AfterException(sc) == [sc EXCEPT !.pc = "exited", !.exit = <<1>>]

\* The documents of a collection.
Docs(name) == chroma.collections[name]

WithDocs(name, docs) ==
    [chroma EXCEPT !.collections = (name :> docs) @@ chroma.collections]

RunUnchanged == UNCHANGED <<scanVars, scans, node_parser, trunc, finder, consolidator>>

\* Line 450: load_terraform_documents returns the documents.
RunLoad ==
    /\ scanner.pc = "built"
    /\ scanner' = [scanner EXCEPT !.steps = Append(@, "load"), !.pc = "setup"]
    /\ UNCHANGED chroma
    /\ RunUnchanged

\* Lines 206-214: the collection of the provider is fetched, or created
\* empty when there is none.
SetupCollection ==
    /\ scanner.pc = "setup"
    /\ chroma' = IF scanner.collection_name \in DOMAIN chroma.collections THEN chroma
                 ELSE WithDocs(scanner.collection_name, {})
    /\ scanner' = [scanner EXCEPT !.pc = "clear"]
    /\ RunUnchanged

\* Line 217: count() is 0; lines 222-223: the vector store is returned.
ClearSkip ==
    /\ scanner.pc = "clear"
    /\ Docs(scanner.collection_name) = {}
    /\ scanner' = [scanner EXCEPT !.setup = "returned", !.pc = "populate"]
    /\ UNCHANGED chroma
    /\ RunUnchanged

\* Lines 217-223: count() > 0 and delete() removes every document.
ClearDeletes ==
    /\ scanner.pc = "clear"
    /\ Docs(scanner.collection_name) # {}
    /\ chroma' = WithDocs(scanner.collection_name, {})
    /\ scanner' = [scanner EXCEPT !.setup = "returned", !.pc = "populate"]
    /\ RunUnchanged

\* Lines 217-219: count() > 0 and delete() raises ValueError; nothing is
\* deleted and the exception leaves _setup_chromadb.
ClearRaises ==
    /\ scanner.pc = "clear"
    /\ Docs(scanner.collection_name) # {}
    /\ scanner' = AfterException([scanner EXCEPT !.setup = "raised"])
    /\ UNCHANGED chroma
    /\ RunUnchanged

\* Lines 225-262: the knowledge base is added to the collection.
Populate ==
    /\ scanner.pc = "populate"
    /\ chroma' = WithDocs(scanner.collection_name,
                          Docs(scanner.collection_name)
                          \cup {[run |-> scanner.run, arg |-> scanner.provider_arg,
                                 doc_type |-> "security_knowledge"]})
    /\ scanner' = [scanner EXCEPT !.pc = "index"]
    /\ RunUnchanged

\* Lines 311-342: the Terraform documents are indexed into the collection
\* and the query engine is returned.
IndexDocuments ==
    /\ scanner.pc = "index"
    /\ chroma' = WithDocs(scanner.collection_name,
                          Docs(scanner.collection_name)
                          \cup {[run |-> scanner.run, arg |-> scanner.provider_arg,
                                 doc_type |-> "terraform_config"]})
    /\ scanner' = [scanner EXCEPT !.steps = Append(@, "pipeline"), !.pc = "query"]
    /\ RunUnchanged

\* Lines 455-470: the main query, then the three specialized ones.
RunQuery ==
    /\ scanner.pc = "query"
    /\ LET done == Len(scanner.steps) - 2
       IN  scanner' = [scanner EXCEPT
                         !.steps = Append(@, Queries[done + 1]),
                         !.pc = IF done + 1 = Len(Queries) THEN "report" ELSE "query"]
    /\ UNCHANGED chroma
    /\ RunUnchanged

\* A step of lines 450-470 raises: the directory is missing or empty, the
\* store, the embedding or the model fails.
StepRaises ==
    /\ scanner.pc \in {"built", "setup", "populate", "index", "query"}
    /\ scanner' = AfterException(scanner)
    /\ UNCHANGED chroma
    /\ RunUnchanged

\* Lines 548-556 and 601-602: the report is written and main ends.
WriteReport ==
    /\ scanner.pc = "report"
    /\ chroma' = [chroma EXCEPT !.reports = @ \cup {scanner.run}]
    /\ scanner' = [scanner EXCEPT !.pc = "exited", !.exit = <<0>>]
    /\ RunUnchanged

\* Line 548: open() raises; no file is there.
WriteFails ==
    /\ scanner.pc = "report"
    /\ scanner' = [scanner EXCEPT !.pc = "exited", !.exit = <<1>>]
    /\ UNCHANGED chroma
    /\ RunUnchanged

\* The process has ended; the scanner is started again.
NextRun ==
    /\ scanner.pc = "exited"
    /\ scanner.run < MaxRuns
    /\ \E args \in RunArgs : scanner' = NewRun(scanner.run + 1, args)
    /\ UNCHANGED chroma
    /\ RunUnchanged

NextRuns ==
    \/ MainProvider
    \/ Construct
    \/ BuildKnowledge
    \/ RunLoad
    \/ SetupCollection
    \/ ClearSkip
    \/ ClearDeletes
    \/ ClearRaises
    \/ Populate
    \/ IndexDocuments
    \/ RunQuery
    \/ StepRaises
    \/ WriteReport
    \/ WriteFails
    \/ NextRun

SpecRuns == InitRuns /\ [][NextRuns]_vars

(***************************************************************************)
(* SecurityConsolidator.run_consolidation_analysis of                      *)
(* security_consolidation_script.py (lines 304-375) with the loaders and   *)
(* create_consolidation_prompt.  What the two searches find is taken from  *)
(* the state of the results directory: for each source its newest file is  *)
(* absent, there but unreadable, or there with a content.                  *)
(***************************************************************************)
ConsolTextLen == 2
ConsolFindings == 2

\* Lines 153 and 161: the max_chars of the two _truncate_text calls.
GeminiPromptChars == 4000
ProwlerPromptChars == 2000

\* The contents a Gemini results file may have.
GeminiContents == UNION {TruncTextsOfLen(n) : n \in 0..ConsolTextLen}

\* The contents a Prowler results file may have, parsed: a list of findings.
ProwlerContents == {[i \in 1..m |-> i] : m \in 0..ConsolFindings}

SourceFiles(contents) ==
    {[state |-> "absent", content |-> <<>>], [state |-> "unreadable", content |-> <<>>]}
    \cup {[state |-> "ok", content |-> c] : c \in contents}

\* json.dumps(data, indent=2) of a list of numbers.
RECURSIVE JsonItems(_, _)
JsonItems(data, i) ==
    IF i > Len(data) THEN <<>>
    ELSE <<NL, " ", " ">> \o Digits(data[i])
         \o (IF i < Len(data) THEN <<",">> ELSE <<>>)
         \o JsonItems(data, i + 1)

JsonDumps(data) ==
    IF data = <<>> THEN <<"[", "]">>
    ELSE <<"[">> \o JsonItems(data, 1) \o <<NL, "]">>

\* Lines 153 and 161: the three placeholder texts.
NoGeminiAnalysis ==
    <<"N", "o", " ", "G", "e", "m", "i", "n", "i", " ", "a", "n", "a", "l",
    "y", "s", "i", "s", " ", "a", "v", "a", "i", "l", "a", "b", "l", "e">>
NoGeminiData ==
    <<"N", "o", " ", "G", "e", "m", "i", "n", "i", " ", "d", "a", "t", "a",
    " ", "a", "v", "a", "i", "l", "a", "b", "l", "e">>
NoProwlerData ==
    <<"N", "o", " ", "P", "r", "o", "w", "l", "e", "r", " ", "d", "a", "t",
    "a", " ", "a", "v", "a", "i", "l", "a", "b", "l", "e">>

\* What a loader hands on: None when the file was not found (lines 319-320),
\* a dict with data None when loading failed (lines 120-122, 133-135), a
\* dict with the data otherwise (lines 118, 131).
NotLoaded == [dict |-> FALSE, data_none |-> TRUE, data |-> <<>>]

LoadFailed == [dict |-> TRUE, data_none |-> TRUE, data |-> <<>>]

Loaded(data) == [dict |-> TRUE, data_none |-> FALSE, data |-> data]

\* Lines 111-135 and 319-320: the loader on the file that was found.
Load(file) ==
    IF file.state = "absent" THEN NotLoaded
    ELSE IF file.state = "unreadable" THEN LoadFailed
    ELSE Loaded(file.content)

\* Line 153, the argument of _truncate_text:
\* gemini_data.get('data', 'No Gemini data available') if gemini_data else
\* 'No Gemini analysis available'.  The key 'data' is in every dict a loader
\* returns, so get() gives its value, None after a failed load.
GeminiArgument(gemini_data) ==
    IF ~gemini_data.dict THEN [none |-> FALSE, text |-> NoGeminiAnalysis]
    ELSE IF gemini_data.data_none THEN [none |-> TRUE, text |-> <<>>]
    ELSE [none |-> FALSE, text |-> gemini_data.data]

\* Python's truth value of prowler_data and prowler_data.get('data').
ProwlerHasData(prowler_data) ==
    /\ prowler_data.dict
    /\ ~prowler_data.data_none
    /\ prowler_data.data # <<>>

\* Line 161, the argument of _truncate_text.
ProwlerArgument(prowler_data) ==
    IF ProwlerHasData(prowler_data) THEN JsonDumps(prowler_data.data)
    ELSE NoProwlerData

\* Line 159.
ProwlerCount(prowler_data) ==
    IF ProwlerHasData(prowler_data) THEN Len(prowler_data.data) ELSE 0

\* Lines 137-302: the parts of the prompt that depend on the data.
Prompt(prowler_data, gemini_data) ==
    [gemini |-> truncate_text(GeminiArgument(gemini_data).text, GeminiPromptChars),
     prowler_count |-> ProwlerCount(prowler_data),
     prowler |-> truncate_text(ProwlerArgument(prowler_data), ProwlerPromptChars)]

\* Line 338: "Enhanced Gemini Analysis" + (" + Prowler Findings" if
\* prowler_data else "").
SourcesLine(prowler_data, gemini_data) ==
    <<"Enhanced Gemini Analysis">>
    \o (IF prowler_data.dict THEN <<"Prowler Findings">> ELSE <<>>)

\* Lines 349-351.
SourcesProcessed(prowler_file, gemini_file) ==
    [gemini |-> gemini_file.state # "absent", prowler |-> prowler_file.state # "absent"]

NoPrompt == [gemini |-> <<>>, prowler_count |-> 0, prowler |-> <<>>]

NoReport == [written |-> FALSE, sources |-> <<>>,
             processed |-> [gemini |-> FALSE, prowler |-> FALSE]]

InitConsolidate ==
    /\ ScanIdle
    /\ scans = <<>>
    /\ node_parser = "unset"
    /\ scanner = [pc |-> "idle"]
    /\ trunc = [pc |-> "idle"]
    /\ finder = [pc |-> "idle"]
    /\ chroma = [collections |-> <<>>, reports |-> {}]
    /\ \E pf \in SourceFiles(ProwlerContents) :
       \E gf \in SourceFiles(GeminiContents) :
           consolidator =
               [pc |-> "find", prowler_file |-> pf, gemini_file |-> gf,
                prowler_data |-> NotLoaded, gemini_data |-> NotLoaded,
                prompt |-> NoPrompt, llm_called |-> FALSE, report |-> NoReport,
                error |-> "", exit |-> <<>>]

ConsolUnchanged ==
    UNCHANGED <<scanVars, scans, node_parser, scanner, trunc, finder, chroma>>

\* Lines 371-375 and main, lines 416-421: the exception is printed and
\* raised again, main exits with status 1.
AfterConsolidationError(c, error) ==
    [c EXCEPT !.pc = "exited", !.error = error, !.exit = <<1>>]

\* Lines 312-316: neither search found a file.
NothingFound ==
    /\ consolidator.pc = "find"
    /\ consolidator.prowler_file.state = "absent"
    /\ consolidator.gemini_file.state = "absent"
    /\ consolidator' = AfterConsolidationError(consolidator,
                           "No security analysis results found to consolidate")
    /\ ConsolUnchanged

\* Lines 312-320: a file was found; what was found is loaded.
LoadResults ==
    /\ consolidator.pc = "find"
    /\ \/ consolidator.prowler_file.state # "absent"
       \/ consolidator.gemini_file.state # "absent"
    /\ consolidator' = [consolidator EXCEPT
                          !.prowler_data = Load(consolidator.prowler_file),
                          !.gemini_data = Load(consolidator.gemini_file),
                          !.pc = "prompt"]
    /\ ConsolUnchanged

\* Line 324: the prompt is made.
CreatePrompt ==
    /\ consolidator.pc = "prompt"
    /\ ~GeminiArgument(consolidator.gemini_data).none
    /\ consolidator' = [consolidator EXCEPT
                          !.prompt = Prompt(consolidator.prowler_data,
                                            consolidator.gemini_data),
                          !.pc = "llm"]
    /\ ConsolUnchanged

\* Lines 324, 153 and 41: _truncate_text is given None and len(None) raises
\* TypeError.
CreatePromptRaises ==
    /\ consolidator.pc = "prompt"
    /\ GeminiArgument(consolidator.gemini_data).none
    /\ consolidator' = AfterConsolidationError(consolidator, "TypeError")
    /\ ConsolUnchanged

\* Line 330: the model answers.
CallLLM ==
    /\ consolidator.pc = "llm"
    /\ consolidator' = [consolidator EXCEPT !.llm_called = TRUE, !.pc = "report"]
    /\ ConsolUnchanged

\* Line 330: the call of the model raises.
CallLLMRaises ==
    /\ consolidator.pc = "llm"
    /\ consolidator' = AfterConsolidationError(
                           [consolidator EXCEPT !.llm_called = TRUE], "LLM error")
    /\ ConsolUnchanged

\* Lines 333-369: the report is put together and written; main ends.
WriteFinalReport ==
    /\ consolidator.pc = "report"
    /\ consolidator' = [consolidator EXCEPT
                          !.report = [written |-> TRUE,
                                      sources |-> SourcesLine(consolidator.prowler_data,
                                                              consolidator.gemini_data),
                                      processed |-> SourcesProcessed(consolidator.prowler_file,
                                                                     consolidator.gemini_file)],
                          !.pc = "exited",
                          !.exit = <<0>>]
    /\ ConsolUnchanged

\* Lines 367-368: the report file cannot be written.
WriteFinalReportFails ==
    /\ consolidator.pc = "report"
    /\ consolidator' = AfterConsolidationError(consolidator, "OSError")
    /\ ConsolUnchanged

NextConsolidate ==
    \/ NothingFound
    \/ LoadResults
    \/ CreatePrompt
    \/ CreatePromptRaises
    \/ CallLLM
    \/ CallLLMRaises
    \/ WriteFinalReport
    \/ WriteFinalReportFails

SpecConsolidate == InitConsolidate /\ [][NextConsolidate]_vars

(***************************************************************************)
(* Properties.                                                             *)
(***************************************************************************)
Done == pc = "done"

\* The findings list the invocation returned (once Done).
Result == returned[1]

\* The pattern compiles and, case-insensitively and multi-line, matches the
\* text s somewhere: some start position has some end position.
HasMatch(p, s) ==
    /\ Compiles(p)
    /\ \E i \in 1..(Len(s) + 1) : Ends(Compile(p), s, i, TRUE, TRUE) # <<>>

\* The line, taken alone, matches the pattern case-insensitively.
LineMatchesAlone(p, line) ==
    \E i \in 1..(Len(line) + 1) : Ends(Compile(p), line, i, TRUE, FALSE) # <<>>

\* The positions in fs of the findings of pattern p.
FindingsFor(fs, p) == {i \in 1..Len(fs) : fs[i].pattern = p}

LineNumbers(f) == [i \in 1..Len(f.line_matches) |-> f.line_matches[i][1]]

StrictlyAscending(q) == \A i, j \in 1..Len(q) : i < j => q[i] < q[j]

Range(q) == {q[i] : i \in 1..Len(q)}

\* C1: the returned findings hold a finding for a pattern of the knowledge
\* base if and only if the pattern, case-insensitive and multi-line, has at
\* least one match in the text.
C1_FindingIffMatch ==
    Done =>
        \A j \in 1..Len(security_knowledge) :
            LET p == security_knowledge[j].pattern
            IN  (FindingsFor(Result, p) # {}) <=> HasMatch(p, terraform_content)

\* C1 witness: a scan that returned a finding for one entry and none for
\* another entry, whose pattern compiles; the text has an upper-case letter.
C1_Witness ==
    /\ Done
    /\ Len(security_knowledge) = 2
    /\ Len(Result) = 1
    /\ \A j \in 1..2 : Compiles(security_knowledge[j].pattern)
    /\ \E i \in 1..Len(terraform_content) : terraform_content[i] = "A"

\* C2: the scan returns at most |K| findings, each of an entry of K, and
\* never more than one finding for the same entry: an entry has one finding,
\* with all its line hits, or none.
C2_AtMostOnePerEntry ==
    Done =>
        /\ Len(Result) <= Len(security_knowledge)
        /\ \A i \in 1..Len(Result) :
              \E j \in 1..Len(security_knowledge) :
                  Result[i].pattern = security_knowledge[j].pattern
        /\ \A j \in 1..Len(security_knowledge) :
              Cardinality(FindingsFor(Result, security_knowledge[j].pattern)) <= 1

\* C2 witness: one finding that gathers two line hits.
C2_Witness ==
    /\ Done
    /\ \E i \in 1..Len(Result) : Len(Result[i].line_matches) >= 2

\* C3: for a pattern that matches the text, the finding's line_matches holds
\* exactly the 1-based numbers of the lines (text split on newline) that
\* match the pattern on their own, strictly ascending.
C3_LineNumbersExact ==
    Done =>
        \A j \in 1..Len(security_knowledge) :
            LET p == security_knowledge[j].pattern
                lines == Split(terraform_content)
            IN  HasMatch(p, terraform_content) =>
                  \E i \in 1..Len(Result) :
                      /\ Result[i].pattern = p
                      /\ StrictlyAscending(LineNumbers(Result[i]))
                      /\ Range(LineNumbers(Result[i]))
                           = {n \in 1..Len(lines) : LineMatchesAlone(p, lines[n])}

\* C3 witness: a finding whose first line hit is not the first line of the
\* text, which has a later line that is no hit.
C3_Witness ==
    /\ Done
    /\ \E i \in 1..Len(Result) :
          /\ Len(Result[i].line_matches) = 1
          /\ Result[i].line_matches[1][1] = 2
          /\ Len(Split(terraform_content)) = 3

\* C4: with an entry whose regex does not compile the scan completes, and it
\* returns what it returns for the knowledge base without that entry.
C4_BadEntrySkipped ==
    /\ pc \in {"start", "scan", "display", "done"}
    /\ (Done /\ run = 2 /\ first.relation = "compiling") => returned = first.returned

\* C4 witness: the first knowledge base had an entry that does not compile
\* followed by one that produced a finding, and both scans are done.
C4_Witness ==
    /\ Done /\ run = 2 /\ first.relation = "compiling"
    /\ Len(first.kb) = 2
    /\ ~Compiles(first.kb[1].pattern)
    /\ Len(Result) = 1

\* The order the display is to follow.
SeverityRank(s) ==
    CASE s = "CRITICAL" -> 1 [] s = "HIGH" -> 2 [] s = "MEDIUM" -> 3 [] s = "LOW" -> 4

Headings(o) == SelectSeq(o, LAMBDA l : l.kind = "heading")

\* C5: the severity groups are printed in the order CRITICAL, HIGH, MEDIUM,
\* LOW, and a group without findings prints no heading.
C5_GroupOrder ==
    LET h == Headings(out)
    IN  /\ \A i, j \in 1..Len(h) :
              i < j => SeverityRank(h[i].severity) < SeverityRank(h[j].severity)
        /\ \A i \in 1..Len(h) : h[i].found > 0
        /\ Done =>
              \A s \in {"CRITICAL", "HIGH", "MEDIUM", "LOW"} :
                  (\E i \in 1..Len(h) : h[i].severity = s)
                      <=> (\E i \in 1..Len(Result) : Result[i].severity = s)

\* C5 witness: two groups were printed, a less severe one found first in the
\* knowledge base, and the severity between them has no heading.
C5_Witness ==
    /\ Done
    /\ Len(Result) = 2
    /\ Result[1].severity = "MEDIUM"
    /\ Result[2].severity = "CRITICAL"
    /\ Len(Headings(out)) = 2

\* The position in the knowledge base of the entry with pattern p.
KbIndex(p) ==
    CHOOSE j \in 1..Len(security_knowledge) : security_knowledge[j].pattern = p

InKbOrder(q) == \A x, y \in 1..Len(q) : x < y => KbIndex(q[x].pattern) < KbIndex(q[y].pattern)

GroupItems(o, s) == SelectSeq(o, LAMBDA l : l.kind = "finding" /\ l.severity = s)

\* C6: in the returned list and within each printed severity group the
\* findings are in the order of their entries in the knowledge base.
C6_KbOrderKept ==
    Done =>
        /\ InKbOrder(Result)
        /\ \A s \in {"CRITICAL", "HIGH", "MEDIUM", "LOW"} :
              LET g == GroupItems(out, s)
              IN  /\ InKbOrder(g)
                  /\ \A x \in 1..Len(g) : g[x].number = x
                  /\ Len(g) = Cardinality({i \in 1..Len(Result) : Result[i].severity = s})

\* C6 witness: two findings of one severity, from a knowledge base that lists
\* them the other way round than the table of the model does.
C6_Witness ==
    /\ Done
    /\ Len(Result) = 2
    /\ Result[1].pattern = PatEndOrSpan
    /\ Result[2].pattern = PatLit
    /\ Len(GroupItems(out, "CRITICAL")) = 2

\* The pattern compiles and matches the empty text.
MatchesEmptyText(p) == HasMatch(p, <<>>)

\* C7 as stated: an empty text yields zero findings for every knowledge base,
\* also one with an entry whose regex matches the empty string.
C7_EmptyCorpusNoFindings ==
    (Done /\ terraform_content = <<>>) => Result = <<>>

\* C7 amended: on an empty text the findings are those of the entries whose
\* regex matches the empty string; a knowledge base without such an entry
\* yields zero findings.
C7_EmptyCorpusOnlyEmptyMatches ==
    (Done /\ terraform_content = <<>>) =>
        /\ \A j \in 1..Len(security_knowledge) :
              (FindingsFor(Result, security_knowledge[j].pattern) # {})
                  <=> MatchesEmptyText(security_knowledge[j].pattern)
        /\ (\A j \in 1..Len(security_knowledge) :
                ~MatchesEmptyText(security_knowledge[j].pattern)) => Result = <<>>

\* C7 witness: an empty text scanned with an entry whose regex matches the
\* empty string and one whose regex does not.
C7_Witness ==
    /\ Done /\ terraform_content = <<>>
    /\ Len(security_knowledge) = 2
    /\ Len(Result) = 1
    /\ Result[1].line_matches = << <<1, <<>> >> >>

\* Every match of the pattern in the text, from any start to any end, holds a
\* newline, and there is one.
OnlySpanningMatches(p, s) ==
    /\ HasMatch(p, s)
    /\ \A i \in 1..(Len(s) + 1) :
          \A e \in Range(Ends(Compile(p), s, i, TRUE, TRUE)) :
              \E x \in i..(e - 1) : s[x] = NL

\* C8 as stated: a pattern whose only matches span a line boundary has a
\* finding, and the finding's line_matches is empty.
C8_SpanningHasNoLines ==
    Done =>
        \A j \in 1..Len(security_knowledge) :
            LET p == security_knowledge[j].pattern
            IN  (Compiles(p) /\ OnlySpanningMatches(p, terraform_content)) =>
                  \E i \in 1..Len(Result) :
                      Result[i].pattern = p /\ Result[i].line_matches = <<>>

\* C8 amended: a pattern whose only matches span a line boundary has a
\* finding, whatever the lines give; the finding's line_matches is empty
\* exactly when no line matches the pattern on its own.
C8_SpanningStillFound ==
    Done =>
        \A j \in 1..Len(security_knowledge) :
            LET p == security_knowledge[j].pattern
                lines == Split(terraform_content)
            IN  (Compiles(p) /\ OnlySpanningMatches(p, terraform_content)) =>
                  \E i \in 1..Len(Result) :
                      /\ Result[i].pattern = p
                      /\ (Result[i].line_matches = <<>>)
                           <=> (\A n \in 1..Len(lines) : ~LineMatchesAlone(p, lines[n]))

\* C8 witness: a finding without line hits, all of whose matches hold a
\* newline.
C8_Witness ==
    /\ Done
    /\ \E i \in 1..Len(Result) :
          /\ Result[i].line_matches = <<>>
          /\ OnlySpanningMatches(Result[i].pattern, terraform_content)

\* C9: a second scan of the same knowledge base and the same text returns the
\* same findings, with the same fields, in the same order.
C9_SameInputsSameResult ==
    (Done /\ run = 2 /\ first.relation = "same") => returned = first.returned

\* C9 witness: both scans are done and returned two findings.
C9_Witness ==
    /\ Done /\ run = 2 /\ first.relation = "same"
    /\ Len(Result) = 2

\* The two lists name the same entries, in the same order, with the same line
\* numbers.
SameEntriesAndLines(fs, gs) ==
    /\ Len(fs) = Len(gs)
    /\ \A i \in 1..Len(fs) :
          /\ fs[i].pattern = gs[i].pattern
          /\ LineNumbers(fs[i]) = LineNumbers(gs[i])

\* C10: two texts that differ only in letter case give findings for the same
\* entries with the same line numbers.
C10_CaseInsensitive ==
    (Done /\ run = 2 /\ first.relation = "case") =>
        SameEntriesAndLines(Result, first.returned[1])

\* C10 witness: the two texts differ in case on a line that is a hit.
C10_Witness ==
    /\ Done /\ run = 2 /\ first.relation = "case"
    /\ \E i \in 1..Len(Result) :
          \E x \in 1..Len(Result[i].line_matches) :
              LET n == Result[i].line_matches[x][1]
              IN  Split(terraform_content)[n] # Split(first.content)[n]

\* t is the line without its leading and its trailing whitespace.
IsStripped(t, line) ==
    \E a \in 0..Len(line) :
        /\ a + Len(t) <= Len(line)
        /\ t = SubSeq(line, a + 1, a + Len(t))
        /\ \A i \in 1..a : line[i] \in Whitespace
        /\ \A i \in (a + Len(t) + 1)..Len(line) : line[i] \in Whitespace
        /\ t # <<>> => (t[1] \notin Whitespace /\ t[Len(t)] \notin Whitespace)

\* C11 as stated: every line_matches entry is a pair (number, text) whose
\* text is the text of that line of the file.
C11_LineTextIsLine ==
    Done =>
        \A i \in 1..Len(Result) :
            \A x \in 1..Len(Result[i].line_matches) :
                LET e == Result[i].line_matches[x]
                IN  /\ e[1] \in 1..Len(Split(terraform_content))
                    /\ e[2] = Split(terraform_content)[e[1]]

\* C11 amended: every line_matches entry is a pair (number, text) whose text
\* is that line of the file without its leading and trailing whitespace.
C11_LineTextIsStrippedLine ==
    Done =>
        \A i \in 1..Len(Result) :
            \A x \in 1..Len(Result[i].line_matches) :
                LET e == Result[i].line_matches[x]
                IN  /\ e[1] \in 1..Len(Split(terraform_content))
                    /\ IsStripped(e[2], Split(terraform_content)[e[1]])

\* C11 witness: a hit on the second line, which ends with a space.
C11_Witness ==
    /\ Done
    /\ \E i \in 1..Len(Result) :
          /\ Result[i].line_matches = << <<2, <<"a">> >> >>
          /\ Split(terraform_content)[2] = <<"a", " ">>

\* Every finding holds the values of an entry of the knowledge base.
CopiesAnEntry(f) ==
    \E j \in 1..Len(security_knowledge) :
        LET e == security_knowledge[j]
        IN  /\ f.category = e.category
            /\ f.severity = e.severity
            /\ f.vulnerability = e.vulnerability
            /\ f.pattern = e.pattern
            /\ f.remediation = e.remediation

\* C12: no step of the scan changes the knowledge base or the file, the text
\* read stays as read, and every finding only holds values of its entry.
C12_InputsUntouched ==
    /\ [](\A i \in 1..Len(findings) : CopiesAnEntry(findings[i]))
    /\ [](pc \in {"scan", "display", "done"} => terraform_content = file_content)
    /\ [][/\ security_knowledge' = security_knowledge
          /\ file_content' = file_content
          /\ pc # "start" => terraform_content' = terraform_content]_vars

\* C12 witness: a scan of a two-line file is done with a finding for each of
\* two entries.
C12_Witness ==
    /\ Done
    /\ Len(security_knowledge) = 2
    /\ Len(Result) = 2
    /\ Len(Split(file_content)) = 2

\* C13: when two different entries both match the same line, each has its
\* own finding and each of the two findings lists that line.
C13_OverlapBothReported ==
    Done =>
        \A j1, j2 \in 1..Len(security_knowledge) :
            \A n \in 1..Len(Split(terraform_content)) :
                LET p1 == security_knowledge[j1].pattern
                    p2 == security_knowledge[j2].pattern
                    line == Split(terraform_content)[n]
                IN  (/\ j1 < j2
                     /\ HasMatch(p1, terraform_content)
                     /\ HasMatch(p2, terraform_content)
                     /\ LineMatchesAlone(p1, line)
                     /\ LineMatchesAlone(p2, line)) =>
                        \E i1, i2 \in 1..Len(Result) :
                            /\ i1 < i2
                            /\ Result[i1].pattern = p1
                            /\ Result[i2].pattern = p2
                            /\ n \in Range(LineNumbers(Result[i1]))
                            /\ n \in Range(LineNumbers(Result[i2]))

\* C13 witness: two findings that list the same second line.
C13_Witness ==
    /\ Done
    /\ Len(Result) = 2
    /\ LineNumbers(Result[1]) = <<2>>
    /\ LineNumbers(Result[2]) = <<2>>

\* The number of findings of severity s, counted over the positions.
CountOf(fs, s) == Cardinality({i \in 1..Len(fs) : fs[i].severity = s})

SummaryOf(o) == SelectSeq(o, LAMBDA l : l.kind = "summary")

\* C14: the printed total is the number of findings returned and every
\* printed count of a severity is the number of findings of that severity.
C14_CountersAreRecounts ==
    /\ \A i \in 1..Len(Headings(out)) :
          Headings(out)[i].found = CountOf(findings, Headings(out)[i].severity)
    /\ Done =>
          /\ Len(SummaryOf(out)) = 1
          /\ SummaryOf(out)[1].total = Len(Result)
          /\ SummaryOf(out)[1].critical = CountOf(Result, "CRITICAL")
          /\ SummaryOf(out)[1].high = CountOf(Result, "HIGH")
          /\ total_findings = Len(Result)
          /\ critical_count = CountOf(Result, "CRITICAL")
          /\ high_count = CountOf(Result, "HIGH")

\* C14 witness: a summary of two findings, one of them critical, none high.
C14_Witness ==
    /\ Done
    /\ total_findings = 2
    /\ critical_count = 1
    /\ high_count = 0

\* C16: with an empty knowledge base the scan completes with zero findings,
\* no severity heading and a printed total of 0.
C16_EmptyKnowledgeBase ==
    (security_knowledge = <<>> /\ pc # "start") =>
        /\ findings = <<>>
        /\ Headings(out) = <<>>
        /\ pc \in {"scan", "display", "done"}
        /\ Done =>
              /\ Result = <<>>
              /\ SummaryOf(out) = <<[kind |-> "summary", total |-> 0,
                                     critical |-> 0, high |-> 0]>>

\* C16 witness: the scan of a file of three characters with an empty
\* knowledge base is done.
C16_Witness ==
    /\ Done
    /\ security_knowledge = <<>>
    /\ Len(terraform_content) = 3

\* The entries and groups the invocation still has to go through.
Remaining ==
    CASE pc = "start"   -> Len(security_knowledge) + Len(severity_order) + 4
      [] pc = "scan"    -> (Len(security_knowledge) + 1 - k) + Len(severity_order) + 3
      [] pc = "display" -> (Len(severity_order) + 1 - sev) + 1
      [] OTHER          -> 0

AloneIsTheInvocation == Done => Result = ScanAlone(security_knowledge, terraform_content)

C19_AtMostMaxChars ==
    trunc.pc = "returned" =>
        /\ Len(trunc.result) <= trunc.max_chars
        /\ Len(trunc.text) <= trunc.max_chars => trunc.result = trunc.text

\* C19 witness: a text longer than max_chars was cut at a newline and
\* returned with the notice, longer than max_chars.
C19_Witness ==
    /\ trunc.pc = "returned"
    /\ Len(trunc.text) > trunc.max_chars
    /\ Len(Truncated(trunc.text, trunc.max_chars)) < trunc.max_chars
    /\ Len(trunc.result) > trunc.max_chars

\* The files of the tree that match the pattern, wherever they are.
MatchesPattern(f, pat) == GlobMatch(pat, f.name)

\* The position of the first pattern the file matches.
PatternRank(f, patterns) ==
    CHOOSE i \in 1..Len(patterns) :
        /\ MatchesPattern(f, patterns[i])
        /\ \A j \in 1..(i - 1) : ~MatchesPattern(f, patterns[j])

Candidates(tree, patterns) ==
    {f \in DOMAIN tree : \E i \in 1..Len(patterns) : MatchesPattern(f, patterns[i])}

\* C20 as stated: the file chosen matches a pattern at least as early in the
\* list as every other file that matches a pattern.
C20_EarlierPatternWins ==
    finder.pc = "found" =>
        \A f \in Candidates(finder.tree, finder.patterns) :
            PatternRank(finder.result, finder.patterns) <= PatternRank(f, finder.patterns)

\* C20 witness: a file matching the first pattern and a newer one matching
\* only the last pattern; the newer one was chosen.
C20_Witness ==
    /\ finder.pc = "found"
    /\ PatternRank(finder.result, finder.patterns) = 4
    /\ \E f \in Candidates(finder.tree, finder.patterns) :
          /\ PatternRank(f, finder.patterns) = 1
          /\ finder.tree[f] < finder.tree[finder.result]

\* The entry names a provider in its category ("AWS EC2 Security").
NamesProvider(e, provider) == Head(e.category) = Word(provider)

\* C15 as stated: the knowledge base of a scanner holds no entry that names
\* a provider other than the one the scanner was built for.
C15_OnlySelectedProvider ==
    scanner.pc = "built" =>
        \A i \in 1..Len(scanner.security_knowledge) :
            \A other \in {AWS, GCP} \ {scanner.provider} :
                ~NamesProvider(scanner.security_knowledge[i], other)

\* C15 witness: a scanner built for provider gcp holds the entries of
\* category AWS S3 Bucket and of category Public Storage.
C15_Witness ==
    /\ scanner.pc = "built"
    /\ scanner.provider_arg = <<"g", "c", "p">>
    /\ scanner.provider = GCP
    /\ \E i, j \in 1..Len(scanner.security_knowledge) :
          /\ scanner.security_knowledge[i].category = <<"AWS", "S3", "Bucket">>
          /\ scanner.security_knowledge[j].category = <<"Public", "Storage">>

\* C21: either search returns a file that matches one of its patterns and
\* is at least as recent as every file of the directory or its
\* subdirectories that matches one, and returns None exactly when no file
\* matches.
C21_MostRecentReturned ==
    /\ finder.pc = "found" =>
          /\ finder.result \in Candidates(finder.tree, finder.patterns)
          /\ \A f \in Candidates(finder.tree, finder.patterns) :
                finder.tree[f] <= finder.tree[finder.result]
    /\ finder.pc = "none" =>
          /\ Candidates(finder.tree, finder.patterns) = {}
          /\ finder.result = NoPath
    /\ (finder.pc = "search" /\ finder.i > Len(finder.patterns)) =>
          (finder.files = <<>> <=> Candidates(finder.tree, finder.patterns) = {})

\* C21 witness: the Prowler search found an older file first, in the
\* directory itself, and returned the newer one of a subdirectory.
C21_Witness ==
    /\ finder.pc = "found"
    /\ finder.patterns = prowler_patterns
    /\ finder.result.dir = "sub"
    /\ finder.files[1].dir = "top"
    /\ finder.tree[finder.files[1]] < finder.tree[finder.result]

SameLetter(c, d) ==
    \/ c = d
    \/ {c, d} \in {{"A", "a"}, {"W", "w"}, {"S", "s"}, {"G", "g"}, {"C", "c"}, {"P", "p"}}

\* The two provider arguments differ in letter case at most.
SameButCase(p, q) ==
    /\ Len(p) = Len(q)
    /\ \A i \in 1..Len(p) : SameLetter(p[i], q[i])

\* C23: the collection a run works on is the one of every earlier run whose
\* provider argument differs from its own in letter case at most, and of no
\* other run; and a step of a run leaves every other collection as it is.
C23_CollectionPerProvider ==
    /\ [](scanner.pc \notin {"main", "init"} =>
            \A name \in DOMAIN chroma.collections :
                \A d \in Docs(name) :
                    (name = scanner.collection_name)
                        <=> SameButCase(d.arg, scanner.provider_arg))
    /\ [][\A name \in DOMAIN chroma.collections :
              name # scanner.collection_name =>
                  /\ name \in DOMAIN chroma'.collections
                  /\ chroma'.collections[name] = chroma.collections[name]]_vars

\* C23 witness: a run for gcp has filled its collection next to that of an
\* earlier run for AWS, and a third run, for aws, has cleared the latter.
C23_Witness ==
    /\ scanner.run = 3
    /\ scanner.provider_arg = LowerAll(AWS)
    /\ scanner.setup = "returned"
    /\ DOMAIN chroma.collections = {CollectionName(AWS), CollectionName(GCP)}
    /\ Docs(CollectionName(AWS)) = {}
    /\ \E d \in Docs(CollectionName(GCP)) : d.run = 2 /\ d.arg = LowerAll(GCP)

\* C27: the report of a run is written only after the documents, the
\* pipeline, the main query and the three specialized queries, in that
\* order; a run in which one of them raised ends with exit status 1 and
\* without a report.
C27_ReportLast ==
    /\ scanner.run \in chroma.reports =>
          /\ scanner.steps = <<"load", "pipeline">> \o Queries
          /\ scanner.exit = <<0>>
    /\ scanner.pc = "exited" =>
          /\ scanner.exit \in {<<0>>, <<1>>}
          /\ scanner.exit = <<0>> <=> scanner.run \in chroma.reports
          /\ scanner.steps # <<"load", "pipeline">> \o Queries => scanner.exit = <<1>>
    /\ scanner.pc \notin {"exited", "idle"} => scanner.run \notin chroma.reports
    /\ \A i \in 1..Len(scanner.steps) :
          scanner.steps[i] = (<<"load", "pipeline">> \o Queries)[i]

\* C27 witness: the second specialized query of the second run raised after
\* the first run wrote its report; the run ended with status 1 and without
\* a report.
C27_Witness ==
    /\ scanner.run = 2
    /\ scanner.pc = "exited"
    /\ scanner.exit = <<1>>
    /\ scanner.steps = <<"load", "pipeline", "query", "public_access">>
    /\ chroma.reports = {1}

NothingToConsolidate == "No security analysis results found to consolidate"

Found(file) == file.state # "absent"

\* C24 as stated: the error is raised exactly when neither file is found,
\* then without a call of the model and without a report; with a file
\* found the analysis gets to the call of the model.
C24_ErrorIffNothingFound ==
    consolidator.pc = "exited" =>
        /\ consolidator.error = NothingToConsolidate
              <=> (~Found(consolidator.prowler_file) /\ ~Found(consolidator.gemini_file))
        /\ consolidator.error = NothingToConsolidate =>
              (~consolidator.llm_called /\ ~consolidator.report.written)
        /\ (Found(consolidator.prowler_file) \/ Found(consolidator.gemini_file)) =>
              consolidator.llm_called

\* C24 witness: the Prowler file was found and loaded, the Gemini file was
\* found and could not be read, and the analysis ended before the call of
\* the model.
C24_Witness ==
    /\ consolidator.pc = "exited"
    /\ consolidator.prowler_file.state = "ok"
    /\ Len(consolidator.prowler_file.content) = 2
    /\ consolidator.gemini_file.state = "unreadable"
    /\ ~consolidator.llm_called
    /\ consolidator.exit = <<1>>

\* C25 as stated: whatever the loaders hand on, the prompt is made, with the
\* placeholder in the place of a source without data, and nothing is raised.
C25_PromptForEveryOutcome ==
    /\ consolidator.error # "TypeError"
    /\ consolidator.pc \in {"llm", "report"} =>
          /\ (consolidator.gemini_data.data_none =>
                 consolidator.prompt.gemini \in {NoGeminiData, NoGeminiAnalysis})
          /\ (consolidator.prowler_data.data_none =>
                 consolidator.prompt.prowler = NoProwlerData)

\* C25 witness: the Gemini file was found, loading it failed, and making
\* the prompt raised TypeError.
C25_Witness ==
    /\ consolidator.gemini_data = LoadFailed
    /\ consolidator.prowler_data = NotLoaded
    /\ consolidator.error = "TypeError"
    /\ consolidator.prompt = NoPrompt

Names(report, source) == \E i \in 1..Len(report.sources) : report.sources[i] = source

\* C26 as stated: the report names a source in its Sources line exactly
\* when the file of the source was found and its data loaded, and exactly
\* when its Sources Processed line shows the file.
C26_SourcesNamedIffLoaded ==
    consolidator.report.written =>
        /\ Names(consolidator.report, "Enhanced Gemini Analysis")
              <=> (consolidator.gemini_data.dict /\ ~consolidator.gemini_data.data_none)
        /\ Names(consolidator.report, "Prowler Findings")
              <=> (consolidator.prowler_data.dict /\ ~consolidator.prowler_data.data_none)
        /\ Names(consolidator.report, "Enhanced Gemini Analysis")
              <=> consolidator.report.processed.gemini
        /\ Names(consolidator.report, "Prowler Findings")
              <=> consolidator.report.processed.prowler

\* C26 witness: only a Prowler file was found; the report names the Gemini
\* analysis as a source and shows it as not available further down.
C26_Witness ==
    /\ consolidator.report.written
    /\ consolidator.gemini_file.state = "absent"
    /\ consolidator.report.sources = <<"Enhanced Gemini Analysis", "Prowler Findings">>
    /\ ~consolidator.report.processed.gemini

\* The counts of the headings, added up.
RECURSIVE SumFound(_)
SumFound(h) == IF h = <<>> THEN 0 ELSE Head(h).found + SumFound(Tail(h))

====
